---- MODULE Spec2Model ----
(***************************************************************************)
(* Portfolio rebalancer (src/portfolio_rebalancer): the decision engine    *)
(* (rebalance_engine.py), the run orchestrator (executor.py) and the       *)
(* retrying audit write (mongo_client.py).                                 *)
(*                                                                         *)
(* Numbers.  The code computes with floats; the model computes the same    *)
(* quantities exactly, as integers over a common denominator:              *)
(*   - a percentage of one evaluation is kept multiplied by Scale(assets)  *)
(*     (the total value, or 1 when the total is 0), so `x > 5.0` becomes   *)
(*     `xScaled > 5 * Scale`;                                              *)
(*   - a trade percentage (a deviation halved) is kept multiplied by       *)
(*     2 * Scale;                                                          *)
(*   - a trade amount value * pct / 100 is kept multiplied by 200 * Scale; *)
(*   - gas costs are kept in tenths of a dollar.                           *)
(***************************************************************************)
EXTENDS Integers, Sequences, FiniteSets, TLC

(***************************************************************************)
(* Bounds of the model.                                                    *)
(***************************************************************************)
\* longest generic snapshot (number of assets) the engine is evaluated on
MaxAssets == 3
\* largest value of an asset of a generic snapshot
MaxValue == 2
\* number of tasks one worker process runs
MaxRuns == 2
\* longest list of assets the analyzer is given
MaxHoldings == 2
\* largest balance of an asset the analyzer is given
MaxBalance == 2
\* number of calls of evaluate_rebalance_need on one snapshot
MaxCalls == 2

(***************************************************************************)
(* Configuration of RebalanceEngine.                                       *)
(***************************************************************************)
REBALANCE_THRESHOLD == 5
MIN_ASSET_ALLOCATION == 2
\* `if trade_percentage < 1.0: continue`
MIN_TRADE_PERCENTAGE == 1
\* `recommendations[:5]`
MAX_RECOMMENDATIONS == 5

\* DEFAULT_TARGET_ALLOCATIONS, in the insertion order of the dict, which is
\* the order every iteration over the deviations follows.
TargetOrder == <<"ETH", "BTC", "USDC", "MATIC", "LINK", "BNB", "OTHER">>

TargetSymbols == {TargetOrder[k] : k \in 1..Len(TargetOrder)}

target_allocations(symbol) ==
    CASE symbol = "ETH" -> 25
      [] symbol = "BTC" -> 20
      [] symbol = "USDC" -> 15
      [] symbol = "MATIC" -> 10
      [] symbol = "LINK" -> 10
      [] symbol = "BNB" -> 10
      [] symbol = "OTHER" -> 10

\* Symbols of the snapshots: the target table plus two tokens outside it.
Symbols == TargetSymbols \cup {"ADA", "DOT"}

\* The value of an asset whose 'value' field is not a number (None, a
\* string): arithmetic on it raises TypeError.
NonNumeric == -1

Abs(x) == IF x < 0 THEN -x ELSE x
Min(x, y) == IF x < y THEN x ELSE y

(***************************************************************************)
(* Snapshots: the 'assets' list of portfolio_data.                         *)
(***************************************************************************)
Asset(symbol, value, chain) == [symbol |-> symbol, value |-> value, chain |-> chain]

RECURSIVE SeqsUpTo(_, _)
SeqsUpTo(S, n) ==
    IF n = 0 THEN {<<>>}
    ELSE LET shorter == SeqsUpTo(S, n - 1)
         IN shorter \cup {Append(s, x) : s \in {t \in shorter : Len(t) = n - 1}, x \in S}

\* what a generic snapshot holds: ETH on two chains, BTC, and ADA, a token
\* outside the target table
GenericHoldings ==
    {<<"ETH", "ethereum">>, <<"ETH", "polygon">>, <<"BTC", "ethereum">>,
     <<"ADA", "polygon">>}

GenericAssets == {Asset(h[1], v, h[2]) : h \in GenericHoldings, v \in 0..MaxValue}

GenericSnapshots == SeqsUpTo(GenericAssets, MaxAssets)

\* Scenario A of the specification: 90% ETH, 5% BTC, 5% USDC.
SnapScenarioA ==
    <<Asset("ETH", 18, "ethereum"), Asset("BTC", 1, "ethereum"),
      Asset("USDC", 1, "ethereum")>>
\* the same with the remaining 5% in a token outside the target table
SnapScenarioA2 ==
    <<Asset("BTC", 1, "ethereum"), Asset("ADA", 1, "polygon"),
      Asset("ETH", 18, "polygon")>>
\* every symbol exactly on target
SnapOnTarget ==
    <<Asset("ETH", 5, "ethereum"), Asset("BTC", 4, "ethereum"),
      Asset("USDC", 3, "ethereum"), Asset("MATIC", 2, "polygon"),
      Asset("LINK", 2, "ethereum"), Asset("BNB", 2, "bsc"),
      Asset("OTHER", 2, "arbitrum")>>
\* ETH 30% (+5 exactly), OTHER 5% (-5 exactly), the rest on target
SnapEdge ==
    <<Asset("ETH", 6, "ethereum"), Asset("BTC", 4, "ethereum"),
      Asset("USDC", 3, "ethereum"), Asset("MATIC", 2, "polygon"),
      Asset("LINK", 2, "ethereum"), Asset("BNB", 2, "bsc"),
      Asset("OTHER", 1, "arbitrum")>>
\* ETH 35% (+10), BTC 10% (-10), the rest on target: one pair
SnapOnePair ==
    <<Asset("ETH", 7, "ethereum"), Asset("BTC", 2, "ethereum"),
      Asset("USDC", 3, "ethereum"), Asset("MATIC", 2, "polygon"),
      Asset("LINK", 2, "ethereum"), Asset("BNB", 2, "bsc"),
      Asset("OTHER", 2, "arbitrum")>>
\* ETH 45% and BTC 40% over, USDC absent (-15): two pairs
SnapTwoPairs ==
    <<Asset("BTC", 8, "polygon"), Asset("ETH", 9, "solana"),
      Asset("MATIC", 1, "polygon"), Asset("LINK", 1, "ethereum"),
      Asset("BNB", 1, "bsc")>>
\* assets without value: the total is 0
SnapWorthless == <<Asset("ETH", 0, "ethereum"), Asset("USDC", 0, "ethereum")>>
\* small holdings outside the target table, folded into OTHER
SnapFolded ==
    <<Asset("ETH", 98, "ethereum"), Asset("ADA", 1, "ethereum"),
      Asset("DOT", 1, "polygon")>>
\* Scenario A with a second, empty ETH position behind the others
SnapScenarioADup ==
    <<Asset("ETH", 18, "ethereum"), Asset("BTC", 1, "ethereum"),
      Asset("USDC", 1, "ethereum"), Asset("ETH", 0, "polygon")>>
\* a malformed snapshot: one value is not a number
SnapMalformed ==
    <<Asset("ETH", 1, "ethereum"), Asset("BTC", NonNumeric, "ethereum")>>

\* ETH 88%, BTC 12% (-8): the pair into BTC (4) is generated first and sorts
\* behind the pairs into the absent symbols (7.5 and 5)
SnapUnsorted == <<Asset("ETH", 22, "ethereum"), Asset("BTC", 3, "ethereum")>>
\* BTC 32% (+12), USDC 68% (+53), ETH absent (-25): BTC -> ETH (6, medium) is
\* generated before USDC -> ETH (12.5, high)
SnapHighBehind == <<Asset("BTC", 8, "ethereum"), Asset("USDC", 17, "polygon")>>

ScenarioSnapshots ==
    {SnapScenarioA, SnapScenarioA2, SnapOnTarget, SnapEdge, SnapOnePair,
     SnapTwoPairs, SnapWorthless, SnapFolded, SnapScenarioADup, SnapMalformed,
     <<>>}

\* ETH 84.8%, and eight holdings outside the target table of 1.9% each,
\* folded into OTHER: 15.2% (+5.2)
SnapOtherOver ==
    <<Asset("ETH", 848, "ethereum"),
      Asset("ADA", 19, "polygon"), Asset("DOT", 19, "polygon"),
      Asset("ADA", 19, "bsc"), Asset("DOT", 19, "bsc"),
      Asset("ADA", 19, "arbitrum"), Asset("DOT", 19, "arbitrum"),
      Asset("ADA", 19, "ethereum"), Asset("DOT", 19, "ethereum")>>

\* snapshots the engine is evaluated on
Snapshots ==
    GenericSnapshots \cup ScenarioSnapshots
        \cup {SnapUnsorted, SnapHighBehind, SnapOtherOver}

(***************************************************************************)
(* RebalanceEngine: evaluation.                                            *)
(***************************************************************************)
RECURSIVE SumValues(_)
SumValues(assets) ==
    IF assets = <<>> THEN 0 ELSE Head(assets).value + SumValues(Tail(assets))

\* Whether the arithmetic of the evaluation raises on this snapshot.
RaisesOnAssets(assets) ==
    \E k \in 1..Len(assets) : assets[k].value = NonNumeric

\* The common denominator of the percentages of one evaluation.
Scale(assets) == IF SumValues(assets) = 0 THEN 1 ELSE SumValues(assets)

NoAllocations == [s \in Symbols |-> 0]

\* The loop of _calculate_current_allocations over the assets, in order.
\* A symbol the dict has no entry for reads as 0 (`.get(symbol, 0)`).
RECURSIVE AllocationLoop(_, _, _)
AllocationLoop(assets, total_value, allocations) ==
    IF assets = <<>> THEN allocations
    ELSE LET asset == Head(assets)
             allocation == asset.value * 100
         IN AllocationLoop(Tail(assets), total_value,
                IF /\ allocation < MIN_ASSET_ALLOCATION * total_value
                   /\ asset.symbol \notin TargetSymbols
                THEN [allocations EXCEPT !["OTHER"] = @ + allocation]
                ELSE [allocations EXCEPT ![asset.symbol] = allocation])

_calculate_current_allocations(assets) ==
    IF SumValues(assets) = 0 THEN NoAllocations
    ELSE AllocationLoop(assets, SumValues(assets), NoAllocations)

\* deviation = current - target, for every symbol of the target table
_calculate_allocation_deviations(assets, current_allocations) ==
    [s \in TargetSymbols |->
        current_allocations[s] - target_allocations(s) * Scale(assets)]

\* Variant: a symbol above its target by any amount counts as over-allocated.
IsOverAllocatedAboveTarget(assets, dev) == dev > 0

IsOverAllocated(assets, dev) == dev > REBALANCE_THRESHOLD * Scale(assets)
IsUnderAllocated(assets, dev) == dev < -(REBALANCE_THRESHOLD * Scale(assets))

\* 0 when no asset has the symbol, else the index of the first that has
_find_asset_by_symbol(assets, symbol) ==
    IF \E k \in 1..Len(assets) : assets[k].symbol = symbol
    THEN CHOOSE k \in 1..Len(assets) :
            /\ assets[k].symbol = symbol
            /\ \A j \in 1..(k - 1) : assets[j].symbol # symbol
    ELSE 0

_get_preferred_chain_for_asset(asset_symbol, preferred_chain) ==
    CASE asset_symbol \in {"ETH", "USDC", "LINK", "BTC"} -> "ethereum"
      [] asset_symbol = "MATIC" -> "polygon"
      [] asset_symbol = "BNB" -> "bsc"
      [] OTHER -> preferred_chain

\* base_costs, in tenths of a dollar
BaseCost(chain) ==
    CASE chain = "ethereum" -> 150
      [] chain = "polygon" -> 5
      [] chain = "bsc" -> 10
      [] chain \in {"arbitrum", "optimism"} -> 20
      [] OTHER -> 100

\* Variant: the cost of the target chain counted for a same-chain trade too.
EstimateGasCostToChainKept(from_chain, to_chain) ==
    LET from_cost == BaseCost(from_chain)
        to_cost == BaseCost(to_chain)
        cross_chain_multiplier == IF from_chain # to_chain THEN 2 ELSE 1
    IN (from_cost + to_cost) * cross_chain_multiplier

_estimate_gas_cost(from_chain, to_chain) ==
    LET from_cost == BaseCost(from_chain)
        to_cost == IF to_chain # from_chain THEN BaseCost(to_chain) ELSE 0
        cross_chain_multiplier == IF from_chain # to_chain THEN 2 ELSE 1
    IN (from_cost + to_cost) * cross_chain_multiplier

\* Variant: the priority bars one step too low (high above 5, medium above 1).
PriorityOfLowBars(trade_percentage, scale) ==
    IF trade_percentage > 5 * 2 * scale THEN 1
    ELSE IF trade_percentage > 1 * 2 * scale THEN 2 ELSE 3

\* priority = 1 if trade_percentage > 10 else (2 if trade_percentage > 5 else 3)
\* with the trade percentage multiplied by 2 * scale
PriorityOf(trade_percentage, scale) ==
    IF trade_percentage > 10 * 2 * scale THEN 1
    ELSE IF trade_percentage > 5 * 2 * scale THEN 2 ELSE 3

\* The body of the double loop for one (over, under) pair: the sequence of
\* the recommendations it appends (none or one).
PairRecommendation(assets, deviations, over_symbol, under_symbol) ==
    LET scale == Scale(assets)
        trade_percentage ==
            Min(Abs(deviations[over_symbol]), Abs(deviations[under_symbol]))
        from_index == _find_asset_by_symbol(assets, over_symbol)
    IN IF trade_percentage < MIN_TRADE_PERCENTAGE * 2 * scale THEN <<>>
       ELSE IF from_index = 0 THEN <<>>
       ELSE LET from_asset == assets[from_index]
                from_chain == from_asset.chain
                to_chain == _get_preferred_chain_for_asset(under_symbol, from_chain)
            IN <<[from_asset |-> over_symbol,
                  to_asset |-> under_symbol,
                  from_chain |-> from_chain,
                  to_chain |-> to_chain,
                  amount |-> from_asset.value * trade_percentage,
                  percentage |-> trade_percentage,
                  priority |-> PriorityOf(trade_percentage, scale),
                  estimated_gas |-> _estimate_gas_cost(from_chain, to_chain)]>>

\* the inner loop: under-allocated symbols from position u of the table on
RECURSIVE UnderLoop(_, _, _, _)
UnderLoop(assets, deviations, over_symbol, u) ==
    IF u > Len(TargetOrder) THEN <<>>
    ELSE (IF IsUnderAllocated(assets, deviations[TargetOrder[u]])
          THEN PairRecommendation(assets, deviations, over_symbol, TargetOrder[u])
          ELSE <<>>)
         \o UnderLoop(assets, deviations, over_symbol, u + 1)

\* the outer loop: over-allocated symbols from position o of the table on
RECURSIVE OverLoop(_, _, _)
OverLoop(assets, deviations, o) ==
    IF o > Len(TargetOrder) THEN <<>>
    ELSE (IF IsOverAllocated(assets, deviations[TargetOrder[o]])
          THEN UnderLoop(assets, deviations, TargetOrder[o], 1)
          ELSE <<>>)
         \o OverLoop(assets, deviations, o + 1)

\* the recommendations before sorting and truncation
Candidates(assets, deviations) == OverLoop(assets, deviations, 1)

\* Variant: the key without the sign, (x.priority, x.percentage).
KeyLessPercentageAscending(a, b) ==
    \/ a.priority < b.priority
    \/ a.priority = b.priority /\ a.percentage < b.percentage

\* key=lambda x: (x.priority, -x.percentage): a sorts strictly before b
KeyLess(a, b) ==
    \/ a.priority < b.priority
    \/ a.priority = b.priority /\ a.percentage > b.percentage

\* list.sort is stable: an element goes behind every element that does not
\* sort strictly after it
RECURSIVE InsertSorted(_, _)
InsertSorted(sorted, x) ==
    IF sorted = <<>> THEN <<x>>
    ELSE LET last == sorted[Len(sorted)]
         IN IF KeyLess(x, last)
            THEN Append(InsertSorted(SubSeq(sorted, 1, Len(sorted) - 1), x), last)
            ELSE Append(sorted, x)

RECURSIVE SortRecommendations(_)
SortRecommendations(recommendations) ==
    IF recommendations = <<>> THEN <<>>
    ELSE InsertSorted(
            SortRecommendations(SubSeq(recommendations, 1, Len(recommendations) - 1)),
            recommendations[Len(recommendations)])

\* Variant: the sorted list returned whole.
TruncateNothing(recommendations) == recommendations

\* recommendations[:5]
Truncate(recommendations) ==
    SubSeq(recommendations, 1, Min(Len(recommendations), MAX_RECOMMENDATIONS))

_generate_recommendations(assets, deviations) ==
    Truncate(SortRecommendations(Candidates(assets, deviations)))

\* Variant: a deviation of exactly the threshold already counts.
RebalanceNeededAtThreshold(assets, deviations) ==
    \E s \in TargetSymbols : Abs(deviations[s]) >= REBALANCE_THRESHOLD * Scale(assets)

\* any(abs(deviation) > REBALANCE_THRESHOLD for deviation in deviations.values())
RebalanceNeeded(assets, deviations) ==
    \E s \in TargetSymbols : Abs(deviations[s]) > REBALANCE_THRESHOLD * Scale(assets)

Deviations(assets) ==
    _calculate_allocation_deviations(assets, _calculate_current_allocations(assets))

\* The exception the body of evaluate_rebalance_need ends with on this
\* snapshot: "none", or the TypeError of arithmetic on a value that is not a
\* number.
EvaluationError(assets) ==
    IF assets # <<>> /\ RaisesOnAssets(assets) THEN "TypeError" ELSE "none"

\* Variant: the except clause of evaluate_rebalance_need narrowed to KeyError.
CaughtKeyErrorOnly(error) == error = "KeyError"

\* `except Exception as e` of evaluate_rebalance_need
CaughtByEvaluate(error) == TRUE

\* evaluate_rebalance_need: (needed, recommendations), or the exception that
\* leaves it (raised)
evaluate_rebalance_need(assets) ==
    IF assets = <<>>
    THEN [raised |-> FALSE, needed |-> FALSE, recommendations |-> <<>>]
    ELSE IF EvaluationError(assets) # "none"
    THEN [raised |-> ~CaughtByEvaluate(EvaluationError(assets)),
          needed |-> FALSE, recommendations |-> <<>>]
    ELSE [raised |-> FALSE,
          needed |-> RebalanceNeeded(assets, Deviations(assets)),
          recommendations |-> _generate_recommendations(assets, Deviations(assets))]

(***************************************************************************)
(* The audit write: MongoClient.log_rebalancer_activity under              *)
(* retry_on_failure(max_retries=3, delay=1.0), backoff_factor 2.0.         *)
(***************************************************************************)
max_retries == 3
delay == 1
backoff_factor == 2

\* What one attempt of the write can end with: the insert succeeds, or the
\* connection or the insert raises.  ServerSelectionTimeoutError and
\* NetworkTimeout are ConnectionFailures; InvalidDocument stands for every
\* exception outside pymongo's connection and operation errors.
MongoErrors == {"ConnectionFailure", "OperationFailure", "InvalidDocument"}
AttemptOutcomes == {"ok"} \cup MongoErrors

\* Variant: every exception of an attempt retried.
RetriedAnyError == {"ConnectionFailure", "OperationFailure", "InvalidDocument"}

\* the except clause of the retry loop
RetriedErrors == {"ConnectionFailure", "OperationFailure"}

\* Variant: _log_to_mongo catching the connection and operation errors only.
CaughtPymongoErrorsOnly == RetriedErrors

\* `except Exception` of _log_to_mongo
CaughtByLogToMongo == MongoErrors

RECURSIVE Power(_, _)
Power(b, e) == IF e = 0 THEN 1 ELSE b * Power(b, e - 1)

\* Variant: the same wait before every retry, without backoff.
WaitTimeFlat(attempt) == delay

\* wait_time = delay * (backoff_factor ** attempt)
WaitTime(attempt) == delay * Power(backoff_factor, attempt)

(***************************************************************************)
(* State.                                                                  *)
(***************************************************************************)
VARIABLES
    pc,                 \* where the run (or the engine call) stands
    portfolio,          \* the assets of the snapshot
    returned,           \* evaluate_rebalance_need called repeatedly: what
                        \* each call read and returned, in order
    analysis,           \* run(): how portfolio_analyzer.analyze() ended
    stages,             \* run(): the stages entered so far, in order
    needed,             \* evaluate_rebalance_need: rebalance_needed
    recs,               \* evaluate_rebalance_need: recommendations
    i,                  \* execute_rebalance: recommendations processed
    transactions,       \* execute_rebalance: transactions
    successful_trades,  \* execute_rebalance: counter
    failed_trades,      \* execute_rebalance: counter
    total_gas_cost,     \* execute_rebalance: accumulated gas cost
    rebalance_result,   \* what execute_rebalance returned
    result,             \* what run() returned
    audit,              \* the entries handed to _log_to_mongo, in order
    attempt,            \* retry loop: attempts of the current write that failed
    waits,              \* retry loop: the sleeps of the current write, each
                        \* with the error it followed
    writes,             \* the finished writes: attempts, sleeps, outcome
    notifications,      \* the notifications sent, in order
    environ,            \* os.environ of the process
    task,               \* run_rebalancer_task: the arguments of the task
    wallet_address,     \* RebalancerExecutor: self.wallet_address
    user_id,            \* RebalancerExecutor: self.user_id
    runs,               \* the tasks the worker process has started
    deadline,           \* the clock: whether the deadline of the run has
                        \* passed, and during which recommendation it did
    in_flight,          \* execute_rebalance, await by await: the
                        \* recommendations whose trade is awaited
    sleeps,             \* execute_rebalance, await by await: the sleeps
                        \* between trades that have elapsed
    portfolio_data,     \* PortfolioAnalyzer: the PortfolioData under analysis
    price_response,     \* PortfolioAnalyzer: how the price lookup ends
    allocation_analysis \* PortfolioAnalyzer: what _analyze_allocation returned

vars == <<pc, portfolio, returned, analysis, stages, needed, recs, i, transactions, successful_trades,
          failed_trades, total_gas_cost, rebalance_result, result, audit,
          attempt, waits, writes, notifications,
          environ, task, wallet_address, user_id, runs, deadline,
          in_flight, sleeps, portfolio_data, price_response, allocation_analysis>>

processVars == <<environ, task, wallet_address, user_id, runs>>
loopVars == <<in_flight, sleeps>>
analyzerVars == <<portfolio_data, price_response, allocation_analysis>>

engineVars == <<needed, recs>>
execVars == <<i, transactions, successful_trades, failed_trades, total_gas_cost,
              rebalance_result>>
writeVars == <<attempt, waits, writes>>

NoResult == [kind |-> "none"]

\* The environment variables the run reads.  "None" is what os.getenv
\* returns for a variable that is not set.
EnvNames == {"USER_ID", "DISCORD_WEBHOOK_URL"}
EmptyEnviron == [name \in EnvNames |-> "None"]

\* The arguments of run_rebalancer_task.  user_id is "None" when the task is
\* submitted without one; parameters is a dict with at most the key
\* 'discord_webhook_url', "None" standing for its absence.
Wallets == {"0xA", "0xB"}
UserIds == {"alice", "bob"}
Webhooks == {"hook_a"}
Tasks ==
    [wallet_address : Wallets, user_id : UserIds \cup {"None"},
     discord_webhook_url : Webhooks \cup {"None"}]

\* RebalancerExecutor(wallet_address) constructed outside a task
DirectTask == [wallet_address |-> "0xA", user_id |-> "None", discord_webhook_url |-> "None"]

\* snapshots the analysis of a run yields
RunSnapshots == ScenarioSnapshots \cup {s \in GenericSnapshots : Len(s) <= 1}

\* no analysis under way
NoPortfolioData == [assets |-> <<>>, total_value |-> 0]
NoResponse == [kind |-> "none"]
\* _analyze_allocation not yet called
NoAllocationAnalysis == [kind |-> "none"]

\* the deadline of the run has not passed
NotExpired == [expired |-> FALSE, during |-> 0]

InitCommon ==
    /\ returned = <<>>
    /\ portfolio_data = NoPortfolioData
    /\ price_response = NoResponse
    /\ allocation_analysis = NoAllocationAnalysis
    /\ deadline = NotExpired
    /\ in_flight = {}
    /\ sleeps = <<>>
    /\ analysis = "pending"
    /\ stages = <<>>
    /\ needed = FALSE
    /\ recs = <<>>
    /\ i = 0
    /\ transactions = <<>>
    /\ successful_trades = 0
    /\ failed_trades = 0
    /\ total_gas_cost = 0
    /\ rebalance_result = NoResult
    /\ result = NoResult
    /\ audit = <<>>
    /\ attempt = 0
    /\ waits = <<>>
    /\ writes = <<>>
    /\ notifications = <<>>

\* RebalancerExecutor constructed, run() not yet started
Init ==
    /\ pc = "start"
    /\ portfolio \in RunSnapshots
    /\ InitCommon
    /\ environ = EmptyEnviron
    /\ task = DirectTask
    /\ wallet_address = DirectTask.wallet_address
    /\ user_id = "None"
    /\ runs = 0

(***************************************************************************)
(* RebalancerExecutor.run                                                  *)
(***************************************************************************)
LogPcs == {"log_error", "log_balanced", "log_completed", "log_failed"}

\* _log_to_mongo(log_data): the entry is built and handed to the write
Submit(action, status) == audit' = Append(audit, [action |-> action, status |-> status])

\* the except block of run(): log REBALANCE_ERROR, then return the failure
EnterHandler ==
    /\ Submit("REBALANCE_ERROR", "FAILED")
    /\ pc' = "log_error"

\* Variant: run() without `if not portfolio_data: raise`: a None result of
\* the analysis goes on to the evaluation.
AnalyzeWithoutDataCheck ==
    /\ pc = "start"
    /\ \E outcome \in {"data", "none", "raised"} :
          /\ analysis' = outcome
          /\ IF outcome \in {"data", "none"}
             THEN /\ pc' = "evaluate"
                  /\ UNCHANGED audit
             ELSE EnterHandler
    /\ stages' = Append(stages, "analyze")
    /\ UNCHANGED <<portfolio, returned, processVars, analyzerVars, deadline, loopVars, engineVars, execVars, result, writeVars, notifications>>

\* Step 1: portfolio_analyzer.analyze() returns the snapshot, returns None
\* (its own except), or raises.
Analyze ==
    /\ pc = "start"
    /\ \E outcome \in {"data", "none", "raised"} :
          /\ analysis' = outcome
          /\ IF outcome = "data"
             THEN /\ pc' = "evaluate"
                  /\ UNCHANGED audit
             ELSE EnterHandler
    /\ stages' = Append(stages, "analyze")
    /\ UNCHANGED <<portfolio, returned, processVars, analyzerVars, deadline, loopVars, engineVars, execVars, result, writeVars, notifications>>

\* Step 2: evaluate_rebalance_need, and the branch on rebalance_needed.
Evaluate ==
    /\ pc = "evaluate"
    /\ LET ev == evaluate_rebalance_need(portfolio)
       IN /\ needed' = ev.needed
          /\ recs' = ev.recommendations
          /\ IF ev.raised
             THEN EnterHandler
             ELSE IF ~ev.needed
             THEN /\ Submit("REBALANCE_EVALUATION", "COMPLETED")
                  /\ pc' = "log_balanced"
             ELSE /\ pc' = "execute"
                  /\ UNCHANGED audit
          /\ stages' = Append(stages, "evaluate") \o
                          (IF ev.needed THEN <<"execute">> ELSE <<>>)
    /\ UNCHANGED <<portfolio, returned, processVars, analyzerVars, deadline, loopVars, analysis, execVars, result, writeVars, notifications>>

(***************************************************************************)
(* RebalanceEngine.execute_rebalance                                       *)
(***************************************************************************)
\* what _execute_single_trade returns for a recommendation: success with the
\* gas it cost, or failure (its own except turns an exception into failure)
TradeResults(rec) ==
    {[success |-> TRUE, gas_cost |-> g] : g \in {rec.estimated_gas, rec.estimated_gas + 1}}
        \cup {[success |-> FALSE, gas_cost |-> 0]}

\* Variant: the transaction of a failed trade left 'pending'.
TransactionLeftPending(rec, trade_result) ==
    [tx_hash |-> IF trade_result.success THEN "0xhash" ELSE "None",
     from_asset |-> rec.from_asset, to_asset |-> rec.to_asset,
     amount |-> rec.amount, chain |-> rec.from_chain,
     status |-> IF trade_result.success THEN "confirmed" ELSE "pending",
     gas_cost |-> trade_result.gas_cost]

\* RebalanceTransaction(...) of the two branches
Transaction(rec, trade_result) ==
    IF trade_result.success
    THEN [tx_hash |-> "0xhash", from_asset |-> rec.from_asset, to_asset |-> rec.to_asset,
          amount |-> rec.amount, chain |-> rec.from_chain, status |-> "confirmed",
          gas_cost |-> trade_result.gas_cost]
    ELSE [tx_hash |-> "None", from_asset |-> rec.from_asset, to_asset |-> rec.to_asset,
          amount |-> rec.amount, chain |-> rec.from_chain, status |-> "failed",
          gas_cost |-> 0]

\* Variant: only the transaction of a successful trade is appended.
RecordSuccessfulOnly(txs, rec, trade_result) ==
    IF trade_result.success
    THEN Append(txs, [tx_hash |-> "0xhash", from_asset |-> rec.from_asset,
                      to_asset |-> rec.to_asset, amount |-> rec.amount,
                      chain |-> rec.from_chain, status |-> "confirmed",
                      gas_cost |-> trade_result.gas_cost])
    ELSE txs

\* transactions.append(transaction.__dict__), whichever branch built it
RecordTransaction(txs, rec, trade_result) == Append(txs, Transaction(rec, trade_result))

\* Variant: success only when no trade failed.
ExecutionSuccessAllTrades(recommendations, successful) ==
    successful = Len(recommendations)

\* 'success': successful_trades > 0
ExecutionSuccess(recommendations, successful) == successful > 0

\* success_rate = (successful_trades / len(recommendations)) * 100 if recommendations else 0
SuccessRate(recommendations, successful) ==
    IF Len(recommendations) > 0
    THEN [num |-> successful * 100, den |-> Len(recommendations)]
    ELSE [num |-> 0, den |-> 1]

Summary(recommendations, txs, successful, failed, gas_cost) ==
    [kind |-> "summary",
     success |-> ExecutionSuccess(recommendations, successful),
     total_trades |-> Len(recommendations),
     successful_trades |-> successful,
     failed_trades |-> failed,
     success_rate |-> SuccessRate(recommendations, successful),
     transactions |-> txs,
     total_cost |-> gas_cost]

\* Variant: the dict of the except block flagged as a success.
ExecutionErrorFlaggedSuccess == [kind |-> "error", success |-> TRUE]

\* the dict of the except block of execute_rebalance
ExecutionError == [kind |-> "error", success |-> FALSE]

\* Variant: the audit entry of the execution logged COMPLETED on both branches.
AfterExecutionLoggedCompleted(res) ==
    IF res.success
    THEN /\ Submit("REBALANCE_EXECUTION", "COMPLETED")
         /\ pc' = "log_completed"
    ELSE /\ Submit("REBALANCE_EXECUTION", "COMPLETED")
         /\ pc' = "log_failed"

\* the branch of run() on rebalance_result['success'], up to the audit write
AfterExecution(res) ==
    IF res.success
    THEN /\ Submit("REBALANCE_EXECUTION", "COMPLETED")
         /\ pc' = "log_completed"
    ELSE /\ Submit("REBALANCE_EXECUTION", "FAILED")
         /\ pc' = "log_failed"

\* one iteration of the loop over the recommendations
ExecuteTrade ==
    /\ pc = "execute"
    /\ i < Len(recs)
    /\ \E trade_result \in TradeResults(recs[i + 1]) :
          /\ transactions' = RecordTransaction(transactions, recs[i + 1], trade_result)
          /\ successful_trades' = successful_trades + (IF trade_result.success THEN 1 ELSE 0)
          /\ failed_trades' = failed_trades + (IF trade_result.success THEN 0 ELSE 1)
          /\ total_gas_cost' = total_gas_cost + trade_result.gas_cost
    /\ i' = i + 1
    /\ UNCHANGED <<pc, portfolio, returned, processVars, analyzerVars, deadline, loopVars, analysis, stages, engineVars, rebalance_result, result, audit,
                   writeVars, notifications>>

\* an exception in the body of the loop outside _execute_single_trade (a
\* trade result without 'success', a recommendation without its fields):
\* the except block of execute_rebalance returns the error dict
ExecuteRaise ==
    /\ pc = "execute"
    /\ i < Len(recs)
    /\ rebalance_result' = ExecutionError
    /\ AfterExecution(ExecutionError)
    /\ UNCHANGED <<portfolio, returned, processVars, analyzerVars, deadline, loopVars, analysis, stages, engineVars, i, transactions, successful_trades,
                   failed_trades, total_gas_cost, result, writeVars, notifications>>

\* the loop is over: the summary is built and returned to run()
ExecuteReturn ==
    /\ pc = "execute"
    /\ i = Len(recs)
    /\ LET res == Summary(recs, transactions, successful_trades, failed_trades,
                          total_gas_cost)
       IN /\ rebalance_result' = res
          /\ AfterExecution(res)
    /\ UNCHANGED <<portfolio, returned, processVars, analyzerVars, deadline, loopVars, analysis, stages, engineVars, i, transactions, successful_trades,
                   failed_trades, total_gas_cost, result, writeVars, notifications>>

(***************************************************************************)
(* _log_to_mongo and the retry loop around the write                       *)
(***************************************************************************)
\* what run() returns after the audit write of each branch
RunError == [kind |-> "run_error", success |-> FALSE]
NoRebalanceNeeded == [kind |-> "no_rebalance_needed", success |-> TRUE]

\* _log_to_mongo has returned: run() goes on
AfterLog ==
    CASE pc = "log_error" -> /\ result' = RunError
                             /\ pc' = "done"
                             /\ UNCHANGED audit
      [] pc = "log_balanced" -> /\ result' = NoRebalanceNeeded
                                /\ pc' = "done"
                                /\ UNCHANGED audit
      [] pc = "log_completed" -> /\ pc' = "notify_success"
                                 /\ UNCHANGED <<result, audit>>
      [] pc = "log_failed" -> /\ pc' = "notify_failure"
                              /\ UNCHANGED <<result, audit>>

\* an exception leaves _log_to_mongo: inside the try of run() it reaches the
\* except block, inside the except block it leaves run()
LogRaised ==
    IF pc = "log_error"
    THEN /\ pc' = "crashed"
         /\ UNCHANGED <<result, audit>>
    ELSE /\ EnterHandler
         /\ UNCHANGED result

\* the write has ended with `outcome` after `failures + 1` attempts
WriteEnds(outcome) ==
    /\ writes' = Append(writes, [attempts |-> attempt + 1, waits |-> waits,
                                 outcome |-> outcome])
    /\ attempt' = 0
    /\ waits' = <<>>
    /\ IF outcome = "ok" \/ outcome \in CaughtByLogToMongo
       THEN AfterLog
       ELSE LogRaised

\* one attempt of the retry loop
WriteAttempt ==
    /\ pc \in LogPcs
    /\ \E outcome \in AttemptOutcomes :
          IF outcome \in RetriedErrors /\ attempt # max_retries - 1
          THEN /\ waits' = Append(waits, [after |-> outcome,
                                          wait_time |-> WaitTime(attempt)])
               /\ attempt' = attempt + 1
               /\ UNCHANGED <<pc, result, audit, writes>>
          ELSE WriteEnds(outcome)
    /\ UNCHANGED <<portfolio, returned, processVars, analyzerVars, deadline, loopVars, analysis, stages, engineVars, execVars, notifications>>

(***************************************************************************)
(* _send_notifications and the return of run()                             *)
(***************************************************************************)
\* Variant: a notification that is not delivered raises into run().
NotifyUndeliveredRaises ==
    /\ pc \in {"notify_success", "notify_failure"}
    /\ \E delivered \in BOOLEAN :
          /\ notifications' = Append(notifications,
                [status |-> IF pc = "notify_success" THEN "success" ELSE "failure",
                 discord |-> environ["DISCORD_WEBHOOK_URL"],
                 delivered |-> delivered])
          /\ IF delivered
             THEN /\ result' = rebalance_result
                  /\ pc' = "done"
                  /\ UNCHANGED audit
             ELSE /\ EnterHandler
                  /\ UNCHANGED result
    /\ UNCHANGED <<portfolio, returned, processVars, analyzerVars, deadline, loopVars, analysis, stages, engineVars, execVars, writeVars>>

\* every channel is tried inside its own try: a failure is logged only
Notify ==
    /\ pc \in {"notify_success", "notify_failure"}
    /\ \E delivered \in BOOLEAN :
          notifications' = Append(notifications,
              [status |-> IF pc = "notify_success" THEN "success" ELSE "failure",
               discord |-> environ["DISCORD_WEBHOOK_URL"],
               delivered |-> delivered])
    /\ result' = rebalance_result
    /\ pc' = "done"
    /\ UNCHANGED <<portfolio, returned, processVars, analyzerVars, deadline, loopVars, analysis, stages, engineVars, execVars, audit, writeVars>>

Next ==
    \/ Analyze
    \/ Evaluate
    \/ ExecuteTrade
    \/ ExecuteRaise
    \/ ExecuteReturn
    \/ WriteAttempt
    \/ Notify

Spec == Init /\ [][Next]_vars

(***************************************************************************)
(* The engine called on its own: evaluate_rebalance_need on any snapshot.  *)
(***************************************************************************)
InitEval ==
    /\ pc = "call"
    /\ portfolio \in Snapshots
    /\ InitCommon
    /\ environ = EmptyEnviron
    /\ task = DirectTask
    /\ wallet_address = DirectTask.wallet_address
    /\ user_id = "None"
    /\ runs = 0

EvaluateCall ==
    /\ pc = "call"
    /\ LET ev == evaluate_rebalance_need(portfolio)
       IN /\ needed' = ev.needed
          /\ recs' = ev.recommendations
          /\ pc' = IF ev.raised THEN "raised" ELSE "evaluated"
    /\ UNCHANGED <<portfolio, returned, processVars, analyzerVars, deadline, loopVars, analysis, stages, execVars, result, audit, writeVars, notifications>>

NextEval == EvaluateCall

SpecEval == InitEval /\ [][NextEval]_vars

(***************************************************************************)
(* The engine called again and again on the snapshot its caller holds.     *)
(***************************************************************************)
\* snapshots evaluated repeatedly
RepeatSnapshots ==
    ScenarioSnapshots \cup {SnapUnsorted, SnapHighBehind}
        \cup {s \in GenericSnapshots : Len(s) <= 2}

InitRepeat ==
    /\ pc = "call"
    /\ portfolio \in RepeatSnapshots
    /\ InitCommon
    /\ environ = EmptyEnviron
    /\ task = DirectTask
    /\ wallet_address = DirectTask.wallet_address
    /\ user_id = "None"
    /\ runs = 0

\* Variant: the evaluation pops the last asset off the list it was given.
AssetsAfterEvaluatePopped(assets) ==
    IF assets = <<>> THEN <<>> ELSE SubSeq(assets, 1, Len(assets) - 1)

\* The list of the caller after a call: the evaluation reads the assets with
\* .get() and iterates the list; it assigns to neither the list nor its dicts.
AssetsAfterEvaluate(assets) == assets

\* one more call of evaluate_rebalance_need(portfolio_data)
EvaluateRepeated ==
    /\ pc \in {"call", "evaluated"}
    /\ Len(returned) < MaxCalls
    /\ LET ev == evaluate_rebalance_need(portfolio)
       IN /\ needed' = ev.needed
          /\ recs' = ev.recommendations
          /\ returned' = Append(returned, [assets |-> portfolio,
                                           needed |-> ev.needed,
                                           recommendations |-> ev.recommendations])
          /\ pc' = IF ev.raised THEN "raised" ELSE "evaluated"
    /\ portfolio' = AssetsAfterEvaluate(portfolio)
    /\ UNCHANGED <<processVars, analyzerVars, deadline, loopVars, analysis, stages, execVars, result, audit, writeVars, notifications>>

NextRepeat == EvaluateRepeated

SpecRepeat == InitRepeat /\ [][NextRepeat]_vars

(***************************************************************************)
(* The loop of execute_rebalance await by await: an iteration awaits the   *)
(* trade, records its transaction, and awaits the sleep between trades.    *)
(* ExecuteTrade above is one whole iteration.                              *)
(***************************************************************************)
\* `await asyncio.sleep(1)`: the delay between trades, in seconds
INTER_TRADE_DELAY == 1

\* snapshots whose recommendations are executed: one trade, and several
LoopSnapshots == {SnapOnePair, SnapTwoPairs, SnapScenarioA}

\* execute_rebalance(recommendations) called by run()
InitLoop ==
    /\ pc = "execute"
    /\ portfolio \in LoopSnapshots
    /\ analysis = "data"
    /\ stages = <<"analyze", "evaluate", "execute">>
    /\ needed = evaluate_rebalance_need(portfolio).needed
    /\ recs = evaluate_rebalance_need(portfolio).recommendations
    /\ i = 0
    /\ transactions = <<>>
    /\ successful_trades = 0
    /\ failed_trades = 0
    /\ total_gas_cost = 0
    /\ rebalance_result = NoResult
    /\ result = NoResult
    /\ audit = <<>>
    /\ attempt = 0
    /\ waits = <<>>
    /\ writes = <<>>
    /\ notifications = <<>>
    /\ deadline = NotExpired
    /\ in_flight = {}
    /\ sleeps = <<>>
    /\ returned = <<>>
    /\ portfolio_data = NoPortfolioData
    /\ price_response = NoResponse
    /\ allocation_analysis = NoAllocationAnalysis
    /\ environ = EmptyEnviron
    /\ task = DirectTask
    /\ wallet_address = DirectTask.wallet_address
    /\ user_id = "None"
    /\ runs = 0

\* Variant: no sleep between trades.
AfterRecordNoSleep == "execute"

\* where the loop stands with the transaction appended: at the sleep
AfterRecord == "sleeping"

\* the top of an iteration up to `await self._execute_single_trade(rec)`
TradeBegin ==
    /\ pc = "execute"
    /\ i < Len(recs)
    /\ in_flight' = in_flight \cup {i + 1}
    /\ pc' = "trading"
    /\ UNCHANGED <<portfolio, returned, processVars, analyzerVars, deadline, sleeps, analysis, stages, engineVars,
                   execVars, result, audit, writeVars, notifications>>

\* the trade returns: counters, transaction, `transactions.append`
TradeEnd ==
    /\ pc = "trading"
    /\ \E trade_result \in TradeResults(recs[i + 1]) :
          /\ transactions' = RecordTransaction(transactions, recs[i + 1], trade_result)
          /\ successful_trades' = successful_trades + (IF trade_result.success THEN 1 ELSE 0)
          /\ failed_trades' = failed_trades + (IF trade_result.success THEN 0 ELSE 1)
          /\ total_gas_cost' = total_gas_cost + trade_result.gas_cost
    /\ in_flight' = in_flight \ {i + 1}
    /\ i' = i + 1
    /\ pc' = AfterRecord
    /\ UNCHANGED <<portfolio, returned, processVars, analyzerVars, deadline, sleeps, analysis, stages, engineVars,
                   rebalance_result, result, audit, writeVars, notifications>>

\* `await asyncio.sleep(1)` returns: the next iteration, or the end of the loop
TradeSleep ==
    /\ pc = "sleeping"
    /\ sleeps' = Append(sleeps, INTER_TRADE_DELAY)
    /\ pc' = "execute"
    /\ UNCHANGED <<portfolio, returned, processVars, analyzerVars, deadline, in_flight, analysis, stages, engineVars,
                   execVars, result, audit, writeVars, notifications>>

NextLoop ==
    \/ TradeBegin
    \/ TradeEnd
    \/ TradeSleep
    \/ ExecuteReturn

SpecLoop == InitLoop /\ [][NextLoop]_vars

(***************************************************************************)
(* A run whose deadline passes during the execution.  The trade loop of    *)
(* execute_rebalance awaits inside every iteration (the trade, the sleep   *)
(* between trades), and the clock moves on at each; the code reads no      *)
(* clock and takes no deadline.                                            *)
(***************************************************************************)
\* snapshots of the runs the clock is followed in: one, and several trades
DeadlineSnapshots == {SnapOnePair, SnapTwoPairs}

InitDeadline ==
    /\ pc = "start"
    /\ portfolio \in DeadlineSnapshots
    /\ InitCommon
    /\ environ = EmptyEnviron
    /\ task = DirectTask
    /\ wallet_address = DirectTask.wallet_address
    /\ user_id = "None"
    /\ runs = 0

\* the deadline passes while recommendation i + 1 is being processed
DeadlineExpires ==
    /\ pc = "execute"
    /\ i < Len(recs)
    /\ ~deadline.expired
    /\ deadline' = [expired |-> TRUE, during |-> i + 1]
    /\ UNCHANGED <<pc, portfolio, returned, processVars, analyzerVars, loopVars, analysis, stages, engineVars,
                   execVars, result, audit, writeVars, notifications>>

NextDeadline ==
    \/ Next
    \/ DeadlineExpires

SpecDeadline == InitDeadline /\ [][NextDeadline]_vars

(***************************************************************************)
(* A worker process: run_rebalancer_task, one task after the other.        *)
(***************************************************************************)
\* snapshots the analysis yields in the runs of a worker
WorkerSnapshots == {<<>>, SnapOnePair}

\* log_entry of _log_to_mongo for entry k of the audit of the current run
LogEntry(k) ==
    [userId |-> user_id, walletAddress |-> wallet_address,
     action |-> audit[k].action, status |-> audit[k].status]

\* os.environ after the task has propagated its arguments to it
TaskEnviron(env, t) ==
    [name \in EnvNames |->
        CASE name = "USER_ID" /\ t.user_id # "None" -> t.user_id
          [] name = "DISCORD_WEBHOOK_URL" /\ t.discord_webhook_url # "None" ->
                t.discord_webhook_url
          [] OTHER -> env[name]]

\* self.user_id = user_id or os.getenv('USER_ID')
ExecutorUserId(arg, env) == IF arg # "None" THEN arg ELSE env["USER_ID"]

\* the worker process has started and waits for a task
InitWorker ==
    /\ pc = "idle"
    /\ portfolio = <<>>
    /\ InitCommon
    /\ environ = EmptyEnviron
    /\ task = DirectTask
    /\ wallet_address = "None"
    /\ user_id = "None"
    /\ runs = 0

\* run_rebalancer_task up to executor.run(): the arguments go to os.environ
\* and a new RebalancerExecutor is constructed
TaskStart ==
    /\ pc = "idle"
    /\ runs < MaxRuns
    /\ \E t \in Tasks :
          /\ task' = t
          /\ environ' = TaskEnviron(environ, t)
          /\ wallet_address' = t.wallet_address
          /\ user_id' = ExecutorUserId(t.user_id, TaskEnviron(environ, t))
    /\ portfolio' \in WorkerSnapshots
    /\ runs' = runs + 1
    /\ pc' = "start"
    /\ deadline' = NotExpired
    /\ in_flight' = {}
    /\ sleeps' = <<>>
    /\ analysis' = "pending"
    /\ stages' = <<>>
    /\ needed' = FALSE
    /\ recs' = <<>>
    /\ i' = 0
    /\ transactions' = <<>>
    /\ successful_trades' = 0
    /\ failed_trades' = 0
    /\ total_gas_cost' = 0
    /\ rebalance_result' = NoResult
    /\ result' = NoResult
    /\ audit' = <<>>
    /\ attempt' = 0
    /\ waits' = <<>>
    /\ writes' = <<>>
    /\ notifications' = <<>>
    /\ UNCHANGED <<returned, analyzerVars>>

\* executor.run() has returned (or raised): cleanup, and the task is over
TaskReturn ==
    /\ pc \in {"done", "crashed"}
    /\ pc' = "idle"
    /\ UNCHANGED <<portfolio, returned, processVars, analyzerVars, deadline, loopVars, analysis, stages, engineVars, execVars, result,
                   audit, writeVars, notifications>>

NextWorker ==
    \/ TaskStart
    \/ Next
    \/ TaskReturn

SpecWorker == InitWorker /\ [][NextWorker]_vars

(***************************************************************************)
(* PortfolioAnalyzer: _enrich_with_price_data and                          *)
(* _calculate_portfolio_metrics.  Prices and balances are integers; a      *)
(* percentage of the PortfolioData is kept multiplied by its total value   *)
(* (it is 0 when the total value is not positive).                         *)
(***************************************************************************)
\* Asset(symbol, name, balance, chain, contract_address, 0.0, 0.0, 0.0)
Holding(symbol, balance, chain) ==
    [symbol |-> symbol, balance |-> balance, chain |-> chain, price |-> 0, value |-> 0,
     change_24h |-> 0, allocation_percentage |-> 0]

\* what the analyzer is given: tokens of the demo portfolio, one on two chains
HoldingKinds ==
    {<<"ETH", "ethereum">>, <<"USDC", "ethereum">>, <<"USDC", "polygon">>,
     <<"MATIC", "polygon">>}

HoldingAssets == {Holding(h[1], b, h[2]) : h \in HoldingKinds, b \in 0..MaxBalance}

PricedSymbols == {h[1] : h \in HoldingKinds}

\* what price_data holds for a coin: nothing, or 'usd' and 'usd_24h_change'
Absent == [usd |-> -1, usd_24h_change |-> 0]
Quotes == {[usd |-> 2, usd_24h_change |-> -1], [usd |-> 3, usd_24h_change |-> 2]}

\* how the lookup ends: session.get or response.json() raises (a timeout
\* included), the status is not 200, or the status is 200 with price_data
PriceResponses ==
    {[kind |-> "exception"], [kind |-> "status"]}
        \cup {[kind |-> "ok", price_data |-> d] :
                 d \in [PricedSymbols -> Quotes \cup {Absent}]}

\* 'USD' in asset.symbol
HasUSD(symbol) == symbol \in {"USDC"}

\* the branch `if coin_id in price_data` and its else, for one asset
PricedFromResponse(asset, price_data) ==
    IF price_data[asset.symbol] # Absent
    THEN [asset EXCEPT !.price = price_data[asset.symbol].usd,
                       !.change_24h = price_data[asset.symbol].usd_24h_change,
                       !.value = asset.balance * price_data[asset.symbol].usd]
    ELSE [asset EXCEPT !.price = IF HasUSD(asset.symbol) THEN 1 ELSE 0,
                       !.value = asset.balance * (IF HasUSD(asset.symbol) THEN 1 ELSE 0)]

\* the loop of the except branch, for one asset
PricedOnException(asset) ==
    IF asset.price = 0
    THEN [asset EXCEPT !.price = IF HasUSD(asset.symbol) THEN 1 ELSE 100,
                       !.value = asset.balance * (IF HasUSD(asset.symbol) THEN 1 ELSE 100)]
    ELSE asset

\* the assets after _enrich_with_price_data
_enrich_with_price_data(assets, response) ==
    CASE response.kind = "ok" ->
            [k \in 1..Len(assets) |-> PricedFromResponse(assets[k], response.price_data)]
      [] response.kind = "exception" ->
            [k \in 1..Len(assets) |-> PricedOnException(assets[k])]
      [] OTHER -> assets

RECURSIVE SumOfValues(_)
SumOfValues(assets) ==
    IF assets = <<>> THEN 0 ELSE Head(assets).value + SumOfValues(Tail(assets))

\* chain_values[chain] and asset_values[symbol]: the values of the assets
\* whose field (chain, symbol) is the key, summed
RECURSIVE SumOfValuesWhere(_, _, _)
SumOfValuesWhere(assets, field, key) ==
    IF assets = <<>> THEN 0
    ELSE (IF Head(assets)[field] = key THEN Head(assets).value ELSE 0)
            + SumOfValuesWhere(Tail(assets), field, key)

\* (value / total_value * 100) if total_value > 0 else 0, times total_value
ShareOf(value, total_value) == IF total_value > 0 THEN value * 100 ELSE 0

\* Variant: an asset given the share of its symbol.
AssetAllocationBySymbol(assets, k, total_value) ==
    ShareOf(SumOfValuesWhere(assets, "symbol", assets[k].symbol), total_value)

\* asset.allocation_percentage of asset k
AssetAllocation(assets, k, total_value) == ShareOf(assets[k].value, total_value)

\* portfolio_data after _calculate_portfolio_metrics
_calculate_portfolio_metrics(pd) ==
    LET total_value == SumOfValues(pd.assets)
    IN [assets |-> [k \in 1..Len(pd.assets) |->
                       [pd.assets[k] EXCEPT
                           !.allocation_percentage = AssetAllocation(pd.assets, k, total_value)]],
        total_value |-> total_value,
        chain_distribution |->
            [c \in {pd.assets[k].chain : k \in 1..Len(pd.assets)} |->
                ShareOf(SumOfValuesWhere(pd.assets, "chain", c), total_value)],
        asset_distribution |->
            [sy \in {pd.assets[k].symbol : k \in 1..Len(pd.assets)} |->
                ShareOf(SumOfValuesWhere(pd.assets, "symbol", sy), total_value)]]

\* max(values) if values else 0
MaxOf(values) ==
    IF values = {} THEN 0 ELSE CHOOSE x \in values : \A y \in values : y <= x

\* the if / elif / else on chain_count
ChainDiversification(chain_count) ==
    IF chain_count = 1 THEN "poor"
    ELSE IF chain_count = 2 THEN "fair" ELSE "good"

\* the dict _analyze_allocation returns (its texts left out); percentages
\* are compared multiplied by the total value
_analyze_allocation(pd) ==
    LET max_allocation ==
            MaxOf({pd.asset_distribution[sy] : sy \in DOMAIN pd.asset_distribution})
        chain_count == Cardinality(DOMAIN pd.chain_distribution)
    IN [concentration_risk |->
            IF max_allocation > 50 * pd.total_value THEN "high"
            ELSE IF max_allocation > 30 * pd.total_value THEN "medium" ELSE "low",
        chain_diversification |-> ChainDiversification(chain_count),
        is_balanced |-> max_allocation <= 25 * pd.total_value]

\* holdings on three chains
HoldingsOnThreeChains ==
    <<Holding("ETH", 1, "ethereum"), Holding("MATIC", 2, "polygon"),
      Holding("USDC", 2, "bsc")>>

\* _fetch_multi_chain_portfolio has returned; the price lookup is to come
InitAnalyze ==
    /\ pc = "fetched"
    /\ portfolio = <<>>
    /\ analysis = "pending"
    /\ stages = <<>>
    /\ needed = FALSE
    /\ recs = <<>>
    /\ i = 0
    /\ transactions = <<>>
    /\ successful_trades = 0
    /\ failed_trades = 0
    /\ total_gas_cost = 0
    /\ rebalance_result = NoResult
    /\ result = NoResult
    /\ audit = <<>>
    /\ attempt = 0
    /\ waits = <<>>
    /\ writes = <<>>
    /\ notifications = <<>>
    /\ deadline = NotExpired
    /\ in_flight = {}
    /\ sleeps = <<>>
    /\ environ = EmptyEnviron
    /\ task = DirectTask
    /\ wallet_address = DirectTask.wallet_address
    /\ user_id = "None"
    /\ runs = 0
    /\ returned = <<>>
    /\ portfolio_data \in
          {[assets |-> a, total_value |-> 0] :
              a \in SeqsUpTo(HoldingAssets, MaxHoldings) \cup {HoldingsOnThreeChains}}
    /\ price_response \in PriceResponses
    /\ allocation_analysis = NoAllocationAnalysis

\* Step 2 of analyze(): the prices
Enrich ==
    /\ pc = "fetched"
    /\ portfolio_data' =
          [portfolio_data EXCEPT
              !.assets = _enrich_with_price_data(portfolio_data.assets, price_response)]
    /\ pc' = "enriched"
    /\ UNCHANGED <<portfolio, returned, processVars, price_response, allocation_analysis, deadline, loopVars, analysis, stages,
                   engineVars, execVars, result, audit, writeVars, notifications>>

\* Step 3 of analyze(): the metrics
CalculateMetrics ==
    /\ pc = "enriched"
    /\ portfolio_data' = _calculate_portfolio_metrics(portfolio_data)
    /\ pc' = "measured"
    /\ UNCHANGED <<portfolio, returned, processVars, price_response, allocation_analysis, deadline, loopVars, analysis, stages,
                   engineVars, execVars, result, audit, writeVars, notifications>>

\* Step 4 of analyze(): allocation and diversification
AnalyzeAllocation ==
    /\ pc = "measured"
    /\ allocation_analysis' = _analyze_allocation(portfolio_data)
    /\ pc' = "analyzed"
    /\ UNCHANGED <<portfolio, returned, processVars, portfolio_data, price_response, deadline, loopVars, analysis, stages,
                   engineVars, execVars, result, audit, writeVars, notifications>>

NextAnalyze ==
    \/ Enrich
    \/ CalculateMetrics
    \/ AnalyzeAllocation

SpecAnalyze == InitAnalyze /\ [][NextAnalyze]_vars

(***************************************************************************)
(* Properties.                                                             *)
(***************************************************************************)
\* the deviations the engine computes for the snapshot
SnapshotDeviation(s) == Deviations(portfolio)[s]

\* C1: for every snapshot, evaluate_rebalance_need returns at most 5
\* recommendations.
C1_AtMostFiveRecommendations ==
    pc = "evaluated" => Len(recs) <= 5

\* more than 5 pairs were generated and 5 were returned
C1_Witness ==
    /\ pc = "evaluated"
    /\ ~RaisesOnAssets(portfolio)
    /\ Len(Candidates(portfolio, Deviations(portfolio))) > 5
    /\ Len(recs) = 5

\* asset k holds pct percent of the value of the snapshot
HoldsShare(assets, k, pct) ==
    /\ SumValues(assets) > 0
    /\ assets[k].value * 100 = pct * SumValues(assets)

\* Scenario A: one asset, ETH (target 25), holds 90%; another, BTC (target
\* 20), holds 5%
IsScenarioA(assets) ==
    /\ ~RaisesOnAssets(assets)
    /\ \E a, b \in 1..Len(assets) :
          /\ assets[a].symbol = "ETH" /\ HoldsShare(assets, a, 90)
          /\ assets[b].symbol = "BTC" /\ HoldsShare(assets, b, 5)

DistinctSymbols(assets) ==
    \A j, k \in 1..Len(assets) : j # k => assets[j].symbol # assets[k].symbol

C3_EmptyBatchSucceeds ==
    rebalance_result.kind = "summary" =>
        /\ recs = <<>> =>
              /\ rebalance_result.success = TRUE
              /\ rebalance_result.total_trades = 0
        /\ (recs # <<>> /\ rebalance_result.failed_trades = Len(recs)) =>
              rebalance_result.success = FALSE

\* every deviation the engine computes is within 5 points, 5 included
AllWithinThreshold ==
    \A s \in TargetSymbols : Abs(SnapshotDeviation(s)) <= 5 * Scale(portfolio)

CarriesRecommendation(tx, rec) ==
    /\ tx.from_asset = rec.from_asset
    /\ tx.to_asset = rec.to_asset
    /\ tx.amount = rec.amount
    /\ tx.chain = rec.from_chain

\* C5: execute_rebalance records one transaction per recommendation, in
\* order, whatever each trade's outcome: after i recommendations there are i
\* transactions, transaction k carrying from_asset, to_asset, amount and
\* source chain of recommendation k, and the summary is returned only with
\* all of them attempted.
C5_OneTransactionPerRecommendation ==
    /\ Len(transactions) = i
    /\ i <= Len(recs)
    /\ \A k \in 1..Len(transactions) : CarriesRecommendation(transactions[k], recs[k])
    /\ rebalance_result.kind = "summary" =>
          /\ Len(rebalance_result.transactions) = Len(recs)
          /\ \A k \in 1..Len(recs) :
                CarriesRecommendation(rebalance_result.transactions[k], recs[k])

\* a batch in which a failed trade was followed by a successful one
C5_Witness ==
    /\ rebalance_result.kind = "summary"
    /\ Len(recs) >= 2
    /\ \E k \in 1..(Len(recs) - 1) :
          /\ rebalance_result.transactions[k].status = "failed"
          /\ rebalance_result.transactions[k + 1].status = "confirmed"

TerminalTransaction(tx) ==
    /\ tx.status \in {"confirmed", "failed"}
    /\ tx.status = "failed" => tx.tx_hash = "None"

\* C6: every recorded transaction is 'confirmed' or 'failed', without a
\* tx_hash when failed, and is never modified once appended; a batch of one
\* recommendation whose trade failed returns success == false,
\* failed_trades == 1 and one failed transaction without tx_hash.
C6_TransactionsTerminal ==
    /\ [](\A k \in 1..Len(transactions) : TerminalTransaction(transactions[k]))
    /\ []((/\ rebalance_result.kind = "summary"
           /\ Len(recs) = 1
           /\ transactions[1].status # "confirmed") =>
              /\ rebalance_result.success = FALSE
              /\ rebalance_result.failed_trades = 1
              /\ Len(rebalance_result.transactions) = 1
              /\ rebalance_result.transactions[1].status = "failed"
              /\ rebalance_result.transactions[1].tx_hash = "None")
    /\ [][/\ Len(transactions') >= Len(transactions)
          /\ \A k \in 1..Len(transactions) : transactions'[k] = transactions[k]]_vars

\* Scenario D: the run of one recommendation whose trade failed has returned
C6_Witness ==
    /\ pc = "done"
    /\ Len(recs) = 1
    /\ rebalance_result.kind = "summary"
    /\ rebalance_result.failed_trades = 1
    /\ rebalance_result.transactions[1].status = "failed"

\* the transactions of a list with the given status
CountStatus(txs, status) ==
    Cardinality({k \in 1..Len(txs) : txs[k].status = status})

\* C7: for a non-empty batch, whatever the outcomes of its trades:
\* successful_trades + failed_trades == total_trades == number of
\* recommendations (the successes being the confirmed transactions),
\* success == (successful_trades > 0), and success_rate ==
\* successful_trades / total_trades * 100; with a success and a failure,
\* success == true and success_rate < 100.
C7_SummaryCounts ==
    (rebalance_result.kind = "summary" /\ recs # <<>>) =>
        LET r == rebalance_result
        IN /\ r.successful_trades + r.failed_trades = r.total_trades
           /\ r.total_trades = Len(recs)
           /\ r.successful_trades = CountStatus(r.transactions, "confirmed")
           /\ r.failed_trades = CountStatus(r.transactions, "failed")
           /\ r.success = (r.successful_trades > 0)
           /\ r.success_rate.num * r.total_trades
                 = r.successful_trades * 100 * r.success_rate.den
           /\ (r.successful_trades > 0 /\ r.failed_trades > 0) =>
                 /\ r.success = TRUE
                 /\ r.success_rate.num < 100 * r.success_rate.den

\* a batch with a success and a failure
C7_Witness ==
    /\ rebalance_result.kind = "summary"
    /\ rebalance_result.successful_trades > 0
    /\ rebalance_result.failed_trades > 0

\* what is left of a run, a number every step of run() makes smaller
StepsLeft ==
    100 * (CASE pc = "start" -> 6
             [] pc = "evaluate" -> 5
             [] pc = "execute" -> 4
             [] pc \in {"log_balanced", "log_completed", "log_failed"} -> 3
             [] pc \in {"notify_success", "notify_failure"} -> 2
             [] pc = "log_error" -> 1
             [] OTHER -> 0)
    + (IF pc = "execute" THEN Len(recs) - i ELSE 0)
    + (IF pc \in LogPcs THEN max_retries - attempt ELSE 0)

\* C8: run() always terminates by returning a result with a boolean success
\* field and lets no exception escape, whatever analysis, evaluation,
\* execution, audit write and notification do: no exception leaves run(),
\* every step brings the run closer to its return (the trade loop and the
\* retry loop are bounded), and what it returns has a boolean success.
C8_RunAlwaysReturns ==
    /\ [](pc # "crashed")
    /\ [](StepsLeft >= 0 /\ (StepsLeft = 0 <=> pc = "done"))
    /\ [](i <= Len(recs) /\ attempt < max_retries)
    /\ [][StepsLeft' < StepsLeft]_vars
    /\ [](pc = "done" => (result.kind # "none" /\ result.success \in BOOLEAN))

\* a run has returned although the analysis raised and the audit write of
\* the failure failed on a non-retried error
C8_Witness ==
    /\ pc = "done"
    /\ analysis = "raised"
    /\ Len(writes) = 1
    /\ writes[1].outcome = "InvalidDocument"
    /\ result.success = FALSE

\* C9: when the snapshot stage fails (the analysis raises or yields no
\* data), no evaluation and no trade take place, one audit entry, of status
\* FAILED, is submitted, and the result has success == false.
C9_SnapshotFailureAborts ==
    analysis \in {"none", "raised"} =>
        /\ stages = <<"analyze">>
        /\ pc \in {"log_error", "done"}
        /\ transactions = <<>>
        /\ i = 0
        /\ rebalance_result = NoResult
        /\ audit = <<[action |-> "REBALANCE_ERROR", status |-> "FAILED"]>>
        /\ pc = "done" => (result.kind = "run_error" /\ result.success = FALSE)

C9_Witness ==
    /\ pc = "done"
    /\ analysis = "none"
    /\ result.success = FALSE
    /\ Len(audit) = 1

\* the evaluation stage of the run raised inside evaluate_rebalance_need
EvaluationRaised == "evaluate" \in {stages[k] : k \in 1..Len(stages)} /\ RaisesOnAssets(portfolio)

\* the execution stage of the run raised inside execute_rebalance
ExecutionRaised == rebalance_result.kind = "error"

\* C10 as stated: an exception inside the evaluation or the execution stage
\* is caught and turned into a failed run result (success == false).
C10_StageExceptionFailsRun ==
    /\ pc # "crashed"
    /\ (pc = "done" /\ (EvaluationRaised \/ ExecutionRaised)) => result.success = FALSE

\* C10 amended: neither propagates; an exception inside the execution stage
\* (outside the single trade) gives a failed run result (success == false,
\* audit entry FAILED); an exception inside the evaluation is answered "not
\* needed" and the run returns success == true (no_rebalance_needed, audit
\* entry COMPLETED, no trade).
C10_StageExceptionContained ==
    /\ pc # "crashed"
    /\ (pc = "done" /\ ExecutionRaised) =>
          /\ result.success = FALSE
          /\ audit[Len(audit)].status = "FAILED"
    /\ (pc = "done" /\ EvaluationRaised) =>
          /\ result = NoRebalanceNeeded
          /\ result.success = TRUE
          /\ audit = <<[action |-> "REBALANCE_EVALUATION", status |-> "COMPLETED"]>>
          /\ transactions = <<>>

\* a run whose execution stage raised has returned
C10_WitnessExecution ==
    /\ pc = "done"
    /\ ExecutionRaised
    /\ result.success = FALSE

\* a run whose evaluation raised has returned
C10_Witness ==
    /\ pc = "done"
    /\ EvaluationRaised
    /\ result.success = TRUE

\* C11: evaluate_rebalance_need never raises: on an empty asset list and on
\* any error of the computation of allocations, deviations or
\* recommendations (a malformed snapshot) it returns needed == false and an
\* empty recommendation list.
C11_EvaluateNeverRaises ==
    /\ pc # "raised"
    /\ (pc = "evaluated" /\ (portfolio = <<>> \/ RaisesOnAssets(portfolio))) =>
          (needed = FALSE /\ recs = <<>>)

\* a malformed snapshot whose well-formed part is far from the targets has
\* been evaluated
C11_Witness ==
    /\ pc = "evaluated"
    /\ RaisesOnAssets(portfolio)
    /\ \E k \in 1..Len(portfolio) : portfolio[k].value > 0
    /\ needed = FALSE
    /\ recs = <<>>

\* C12: the list evaluate_rebalance_need returns is ordered by priority
\* ascending, then trade percentage descending: for positions a < b,
\* priority_a <= priority_b, and percentage_a >= percentage_b when the
\* priorities are equal; a priority-1 recommendation precedes a priority-2 one.
C12_RecommendationsOrdered ==
    pc = "evaluated" =>
        \A a, b \in 1..Len(recs) :
            a < b =>
                /\ recs[a].priority <= recs[b].priority
                /\ recs[a].priority = recs[b].priority =>
                      recs[a].percentage >= recs[b].percentage
                /\ ~(recs[a].priority = 2 /\ recs[b].priority = 1)

\* a priority-1 pair generated behind a priority-2 pair has been returned
\* in front of it
C12_Witness ==
    /\ pc = "evaluated"
    /\ ~RaisesOnAssets(portfolio)
    /\ LET candidates == Candidates(portfolio, Deviations(portfolio))
       IN \E a, b \in 1..Len(candidates) :
             /\ a < b
             /\ candidates[a].priority = 2
             /\ candidates[b].priority = 1
             /\ \E c, d \in 1..Len(recs) :
                   c < d /\ recs[c] = candidates[b] /\ recs[d] = candidates[a]

\* C13: runs are isolated from each other: the audit record of a run (the
\* userId it is attributed to) and the configuration the run reads depend
\* only on the run's own wallet address, user id and parameters, never on an
\* earlier run of the same worker process; a run submitted without a user
\* id is not attributed to the user of a previous run.
C13_RunsIsolated ==
    pc # "idle" =>
        /\ \A k \in 1..Len(audit) :
              /\ LogEntry(k).walletAddress = task.wallet_address
              /\ LogEntry(k).userId = task.user_id
        /\ \A k \in 1..Len(notifications) :
              notifications[k].discord = task.discord_webhook_url

\* C14 as stated: a write is retried only on transient connectivity
\* failures; a non-transient error, such as an operation failure, results in
\* one attempt and propagates at once, without retry or backoff wait.
C14_OnlyConnectivityRetried ==
    /\ \A k \in 1..Len(waits) : waits[k].after = "ConnectionFailure"
    /\ \A n \in 1..Len(writes) :
          \A k \in 1..Len(writes[n].waits) :
              writes[n].waits[k].after = "ConnectionFailure"

\* the write w of the retry loop, finished
RetriedAsCoded(w) ==
    /\ w.attempts \in 1..max_retries
    /\ Len(w.waits) = w.attempts - 1
    /\ \A k \in 1..Len(w.waits) :
          /\ w.waits[k].after \in {"ConnectionFailure", "OperationFailure"}
          /\ w.waits[k].wait_time = Power(2, k - 1)
    /\ w.outcome \in {"ConnectionFailure", "OperationFailure"} => w.attempts = max_retries

\* C14 amended: a write is retried on connection failures and also on
\* operation failures, up to 3 attempts with waits of 1 and 2 before the
\* second and the third, the error of the third propagating; an exception
\* of any other kind ends the write at the attempt that raised it and
\* propagates at once, without a further attempt or wait (one attempt
\* and no wait when the first attempt raised it).
C14_RetriedOnPymongoErrors ==
    /\ Len(waits) = attempt
    /\ \A k \in 1..Len(waits) :
          waits[k].after \in {"ConnectionFailure", "OperationFailure"}
    /\ \A n \in 1..Len(writes) : RetriedAsCoded(writes[n])

\* a write retried after an operation failure has ended at once on an
\* exception of another kind
C14_Witness ==
    \E n \in 1..Len(writes) :
        /\ writes[n].attempts = 2
        /\ writes[n].waits[1].after = "OperationFailure"
        /\ writes[n].outcome = "InvalidDocument"

\* what run() returns, by the snapshot stage, the evaluation and the outcomes
\* of the trades alone
OutcomeOfStages ==
    IF analysis # "data" THEN RunError
    ELSE IF ~needed THEN NoRebalanceNeeded
    ELSE IF rebalance_result.kind = "error" THEN ExecutionError
    ELSE Summary(recs, transactions, successful_trades, failed_trades, total_gas_cost)

\* C15: the outcome of a run does not depend on the persistence and
\* notification collaborators: what run() returns (success flag,
\* transactions) is fixed by the snapshot, the evaluation and the trade
\* outcomes, whether audit writes and notifications succeed, fail
\* transiently or fail after all retries; and no step of an audit write or
\* of a notification changes the recommendations, the trades attempted or
\* the transactions.
C15_OutcomeIndependentOfCollaborators ==
    /\ [](pc = "done" => result = OutcomeOfStages)
    /\ [][(pc \in LogPcs \cup {"notify_success", "notify_failure"}) =>
            (engineVars' = engineVars /\ execVars' = execVars)]_vars

\* a run of several trades has returned success although its audit write failed
\* after all retries and its notification was not delivered
C15_Witness ==
    /\ pc = "done"
    /\ result.kind = "summary"
    /\ result.success = TRUE
    /\ Len(result.transactions) >= 2
    /\ Len(writes) = 1
    /\ writes[1].attempts = max_retries
    /\ writes[1].outcome = "ConnectionFailure"
    /\ Len(notifications) = 1
    /\ notifications[1].delivered = FALSE

\* C16: a run has a hard deadline: when it expires while execute_rebalance
\* is processing recommendation k, trade k finishes, no recommendation after
\* k is attempted, and the run is recorded as partially completed.
C16_DeadlineStopsTrades ==
    deadline.expired =>
        /\ i <= deadline.during
        /\ Len(transactions) <= deadline.during
        /\ (pc = "done" /\ deadline.during < Len(recs)) =>
              /\ audit[Len(audit)].status = "PARTIAL"
              /\ Len(result.transactions) = deadline.during

\* C17: the trades of a run are executed strictly sequentially: never are
\* two trades in flight, and the trade of recommendation k + 1 starts only
\* with the outcome of recommendation k recorded as a transaction and the
\* fixed delay between trades elapsed after it.
C17_TradesSequential ==
    /\ Cardinality(in_flight) <= 1
    /\ \A k \in in_flight :
          /\ Len(transactions) = k - 1
          /\ Len(sleeps) = k - 1
    /\ \A k \in 1..Len(sleeps) : sleeps[k] = 1

\* the second trade is in flight, the first recorded as failed
C17_Witness ==
    /\ in_flight = {2}
    /\ Len(transactions) = 1
    /\ transactions[1].status = "failed"
    /\ sleeps = <<1>>

\* the price a failure of the whole lookup gives an asset: 1.0 for a
\* stablecoin, the placeholder 100.0 for any other
FallbackPrice(symbol) == IF HasUSD(symbol) THEN 1 ELSE 100

\* C18: when the price lookup fails as a whole (a status other than 2xx, a
\* timeout, an exception), every asset gets the fallback price and value =
\* balance * price, so the total value is positive whenever some balance is.
C18_LookupFailureFallsBack ==
    (pc \in {"enriched", "measured"} /\ price_response.kind \in {"exception", "status"}) =>
        LET assets == portfolio_data.assets
        IN /\ \A k \in 1..Len(assets) :
                 /\ assets[k].price = FallbackPrice(assets[k].symbol)
                 /\ assets[k].value = assets[k].balance * assets[k].price
           /\ (pc = "measured" /\ \E k \in 1..Len(assets) : assets[k].balance > 0) =>
                 portfolio_data.total_value > 0

\* C19: when the response is successful but lacks a symbol, the assets of
\* that symbol get the fallback price a failure of the whole lookup gives
\* them (1.0 for a stablecoin, the same placeholder for others), and every
\* asset whose symbol is present keeps price and 24h change of the response.
C19_MissingSymbolFallsBack ==
    (pc \in {"enriched", "measured"} /\ price_response.kind = "ok") =>
        LET assets == portfolio_data.assets
            price_data == price_response.price_data
        IN \A k \in 1..Len(assets) :
              IF price_data[assets[k].symbol] = Absent
              THEN /\ assets[k].price = FallbackPrice(assets[k].symbol)
                   /\ assets[k].value = assets[k].balance * assets[k].price
              ELSE /\ assets[k].price = price_data[assets[k].symbol].usd
                   /\ assets[k].change_24h = price_data[assets[k].symbol].usd_24h_change

RECURSIVE SumOfAllocations(_)
SumOfAllocations(assets) ==
    IF assets = <<>> THEN 0
    ELSE Head(assets).allocation_percentage + SumOfAllocations(Tail(assets))

\* C20: after the metrics, the allocation percentages of the assets of a
\* snapshot sum to 100 when its total value is greater than 0, and every
\* one is 0 when the total value is 0.
C20_AllocationsSumTo100 ==
    pc = "measured" =>
        /\ portfolio_data.total_value > 0 =>
              SumOfAllocations(portfolio_data.assets) = 100 * portfolio_data.total_value
        /\ portfolio_data.total_value = 0 =>
              \A k \in 1..Len(portfolio_data.assets) :
                  portfolio_data.assets[k].allocation_percentage = 0

\* two assets of one symbol, both of value, measured
C20_Witness ==
    /\ pc = "measured"
    /\ portfolio_data.total_value > 0
    /\ \E j, k \in 1..Len(portfolio_data.assets) :
          /\ j # k
          /\ portfolio_data.assets[j].symbol = portfolio_data.assets[k].symbol
          /\ portfolio_data.assets[j].value > 0
          /\ portfolio_data.assets[k].value > 0

\* C21: the estimated gas cost of a recommendation is (base_cost[from_chain]
\* + base_cost[to_chain]) * 2 when the chains differ and base_cost[from_chain]
\* when they are equal; an ethereum -> ethereum trade is estimated at 15.0
\* (150 tenths of a dollar).
C21_GasCostByChains ==
    pc = "evaluated" =>
        \A k \in 1..Len(recs) :
            /\ recs[k].from_chain # recs[k].to_chain =>
                  recs[k].estimated_gas =
                      (BaseCost(recs[k].from_chain) + BaseCost(recs[k].to_chain)) * 2
            /\ recs[k].from_chain = recs[k].to_chain =>
                  recs[k].estimated_gas = BaseCost(recs[k].from_chain)
            /\ (recs[k].from_chain = "ethereum" /\ recs[k].to_chain = "ethereum") =>
                  recs[k].estimated_gas = 150

\* an ethereum -> ethereum trade and a cross-chain trade were recommended
C21_Witness ==
    /\ pc = "evaluated"
    /\ \E k \in 1..Len(recs) :
          recs[k].from_chain = "ethereum" /\ recs[k].to_chain = "ethereum"
    /\ \E k \in 1..Len(recs) : recs[k].from_chain # recs[k].to_chain

C22_WitnessNeeded ==
    /\ Len(returned) >= 2
    /\ returned[1].needed
    /\ returned[2].recommendations # <<>>

\* C23: the trade amount of every recommendation is its trade percentage
\* applied to the total value of the portfolio: amount == total_value *
\* min(|over_dev|, |under_dev|) / 2 / 100, with the deviations of its source
\* and target symbols (both sides multiplied by 200 * Scale).
C23_AmountOfTotalValue ==
    pc = "evaluated" =>
        \A k \in 1..Len(recs) :
            recs[k].amount =
                SumValues(portfolio) *
                    Min(Abs(SnapshotDeviation(recs[k].from_asset)),
                        Abs(SnapshotDeviation(recs[k].to_asset)))

\* the pairs (over, under) of target-table symbols that qualify for a trade:
\* over above the threshold, under below it, half the smaller deviation at
\* least 1 point
QualifyingPairs ==
    {pair \in TargetSymbols \X TargetSymbols :
        /\ SnapshotDeviation(pair[1]) > 5 * Scale(portfolio)
        /\ SnapshotDeviation(pair[2]) < -(5 * Scale(portfolio))
        /\ Min(Abs(SnapshotDeviation(pair[1])), Abs(SnapshotDeviation(pair[2])))
              >= 1 * 2 * Scale(portfolio)}

\* C24: before sorting and truncation the engine has generated exactly one
\* candidate for every qualifying pair of target-table symbols, the OTHER
\* bucket included, and no candidate for any other pair.
C24_EveryPairGenerated ==
    (pc = "evaluated" /\ portfolio # <<>> /\ ~RaisesOnAssets(portfolio)) =>
        LET candidates == Candidates(portfolio, Deviations(portfolio))
        IN /\ \A pair \in QualifyingPairs :
                 Cardinality({k \in 1..Len(candidates) :
                                 /\ candidates[k].from_asset = pair[1]
                                 /\ candidates[k].to_asset = pair[2]}) = 1
           /\ \A k \in 1..Len(candidates) :
                 <<candidates[k].from_asset, candidates[k].to_asset>> \in QualifyingPairs

\* the finished write w made at most 3 attempts, every attempt but the last
\* failed and was followed by its backoff wait (1 s, then 2 s), and no wait
\* followed the last attempt
BackedOff(w) ==
    /\ w.attempts \in 1..3
    /\ Len(w.waits) = w.attempts - 1
    /\ \A k \in 1..Len(w.waits) :
          /\ w.waits[k].after # "ok"
          /\ w.waits[k].wait_time = (IF k = 1 THEN 1 ELSE 2)

\* C25: a write under the retry policy is attempted at most 3 times and
\* stops at the first success; after failed attempt k (from 0) that is not
\* the last it waits 1 * 2^k (1 s, then 2 s); there is no wait after the
\* final failed attempt, after which the last failure is raised.
C25_BoundedRetriesWithBackoff ==
    /\ attempt \in 0..2
    /\ Len(waits) = attempt
    /\ \A k \in 1..Len(waits) :
          /\ waits[k].after # "ok"
          /\ waits[k].wait_time = (IF k = 1 THEN 1 ELSE 2)
    /\ \A n \in 1..Len(writes) :
          /\ BackedOff(writes[n])
          /\ writes[n].attempts = 3 =>
                writes[n].outcome \in {"ok", "ConnectionFailure", "OperationFailure",
                                       "InvalidDocument"}

\* a write has failed three times, with waits of 1 s and 2 s, and raised the
\* failure of its third attempt
C25_Witness ==
    \E n \in 1..Len(writes) :
        /\ writes[n].attempts = 3
        /\ writes[n].waits =
              <<[after |-> "ConnectionFailure", wait_time |-> 1],
                [after |-> "OperationFailure", wait_time |-> 2]>>
        /\ writes[n].outcome = "ConnectionFailure"

\* a write has succeeded at its second attempt and made no third
C25_WitnessSuccess ==
    \E n \in 1..Len(writes) :
        /\ writes[n].attempts = 2
        /\ Len(writes[n].waits) = 1
        /\ writes[n].outcome = "ok"

\* the chains the assets of the snapshot are on
ChainsOf(assets) == {assets[k].chain : k \in 1..Len(assets)}

\* C26: the chain-diversification label of a snapshot is 'poor' iff it is
\* spread over exactly 1 chain, 'fair' iff over exactly 2, 'good' iff over 3
\* or more; an empty snapshot (0 chains) is never labelled 'good'.
C26_ChainDiversificationLabel ==
    pc = "analyzed" =>
        LET chains == Cardinality(ChainsOf(portfolio_data.assets))
            label == allocation_analysis.chain_diversification
        IN /\ label = "poor" <=> chains = 1
           /\ label = "fair" <=> chains = 2
           /\ label = "good" <=> chains >= 3
           /\ portfolio_data.assets = <<>> => label # "good"

\* C27: whenever evaluate_rebalance_need returns needed == true it returns
\* at least one recommendation, so run() never enters the execution stage
\* with an empty list and never records a failed execution for a run in
\* which no trade was attempted, snapshots of total value 0 included.
C27_NeededImpliesRecommendation ==
    /\ needed => recs # <<>>
    /\ pc = "execute" => recs # <<>>
    /\ \A k \in 1..Len(audit) :
          (audit[k].action = "REBALANCE_EXECUTION" /\ audit[k].status = "FAILED") =>
              (transactions # <<>> \/ rebalance_result.kind = "error")

\* the allocations of the symbols in S, added up
RECURSIVE SumOfAllocationsOver(_, _)
SumOfAllocationsOver(allocations, S) ==
    IF S = {} THEN 0
    ELSE LET s == CHOOSE x \in S : TRUE
         IN allocations[s] + SumOfAllocationsOver(allocations, S \ {s})

\* the values of the assets of one symbol, added up
RECURSIVE ValueOfSymbol(_, _)
ValueOfSymbol(assets, symbol) ==
    IF assets = <<>> THEN 0
    ELSE (IF Head(assets).symbol = symbol THEN Head(assets).value ELSE 0)
            + ValueOfSymbol(Tail(assets), symbol)

\* C28: for a snapshot of total value > 0 the current allocations the engine
\* compares with the targets add up to 100% (here times the total value),
\* and a symbol held as several assets is counted with the sum of their
\* shares.
C28_CurrentAllocationsSumTo100 ==
    (pc = "evaluated" /\ ~RaisesOnAssets(portfolio) /\ SumValues(portfolio) > 0) =>
        LET allocations == _calculate_current_allocations(portfolio)
        IN /\ SumOfAllocationsOver(allocations, Symbols) = 100 * SumValues(portfolio)
           /\ \A s \in TargetSymbols \ {"OTHER"} :
                 allocations[s] = 100 * ValueOfSymbol(portfolio, s)

\* C29: every run submits exactly one audit-log entry, after the outcome of
\* the run is decided (no stage is pending) and before any notification is
\* sent, and the status of the entry is FAILED iff the result run() returns
\* has success == false, COMPLETED otherwise.
C29_OneAuditEntryPerRun ==
    /\ Len(audit) <= 1
    /\ audit # <<>> =>
          pc \in LogPcs \cup {"notify_success", "notify_failure", "done"}
    /\ notifications # <<>> => (Len(audit) = 1 /\ Len(writes) = 1)
    /\ pc = "done" =>
          /\ Len(audit) = 1
          /\ audit[1].status = "FAILED" <=> result.success = FALSE
          /\ audit[1].status = "COMPLETED" <=> result.success = TRUE

\* a run whose trades all failed has returned: one FAILED entry, written in
\* three attempts, and one failure notification after it
C29_Witness ==
    /\ pc = "done"
    /\ audit = <<[action |-> "REBALANCE_EXECUTION", status |-> "FAILED"]>>
    /\ Len(writes) = 1
    /\ writes[1].attempts = 3
    /\ Len(notifications) = 1
    /\ result.success = FALSE

\* the amounts of the recommendations out of one source symbol, added up
RECURSIVE SumOfAmountsFrom(_, _)
SumOfAmountsFrom(recommendations, symbol) ==
    IF recommendations = <<>> THEN 0
    ELSE (IF Head(recommendations).from_asset = symbol
          THEN Head(recommendations).amount ELSE 0)
            + SumOfAmountsFrom(Tail(recommendations), symbol)

\* C30: for a snapshot of non-negative values and the default targets, every
\* returned recommendation has from_asset # to_asset and a trade percentage
\* strictly above 2.5 and at most 12.5 (the percentage is kept times
\* 2 * Scale, the amount times 200 * Scale), and the amounts of the returned
\* recommendations out of one source asset add up to no more than its value.
C30_RecommendationsWithinBounds ==
    pc = "evaluated" =>
        /\ \A k \in 1..Len(recs) :
              /\ recs[k].from_asset # recs[k].to_asset
              /\ recs[k].percentage > 5 * Scale(portfolio)
              /\ recs[k].percentage <= 25 * Scale(portfolio)
              /\ recs[k].percentage >= MIN_TRADE_PERCENTAGE * 2 * Scale(portfolio)
        /\ \A k \in 1..Len(recs) :
              SumOfAmountsFrom(recs, recs[k].from_asset) <=
                  200 * Scale(portfolio) *
                      portfolio[_find_asset_by_symbol(portfolio, recs[k].from_asset)].value

\* five recommendations were returned, one of them of 12.5 points, and
\* several out of one source asset
C30_Witness ==
    /\ pc = "evaluated"
    /\ Len(recs) = 5
    /\ \E k \in 1..Len(recs) : recs[k].percentage = 25 * Scale(portfolio)
    /\ \E j, k \in 1..Len(recs) : j # k /\ recs[j].from_asset = recs[k].from_asset

====
